---- MODULE Spec2Model ----
(***************************************************************************)
(* Model of nu_plugin_file_dialog (src/src/main.rs).                       *)
(*                                                                         *)
(* The plugin serves one command, `file-dialog`.  FileDialogCommand::run   *)
(* reads the flags of one call, validates them, assembles a native-dialog  *)
(* request, shows the dialog and maps the chosen path(s) to a nu Value.    *)
(* The model follows run line by line: pc is the position inside run, the  *)
(* other variables are run's locals, the dialog builder `fd`, and what an  *)
(* instrumented host / dialog presenter would have recorded.               *)
(*                                                                         *)
(* nu Values are tagged records, Option<T> is None / Some(x), a Rust       *)
(* String is modelled by its text, a PathBuf by its OS text together with  *)
(* whether that text is valid UTF-8 (what OsString::into_string decides).  *)
(***************************************************************************)
EXTENDS Naturals, Sequences, FiniteSets, TLC

(* ------------------------------ bounds --------------------------------- *)

\* Largest number of entries of a supplied filter record.
MaxEntries == 2

\* Largest number of paths a multi-file dialog returns.
MaxPaths == 2

(* --------------------------- nu_protocol::Value ------------------------ *)

None == [some |-> FALSE]
Some(x) == [some |-> TRUE, v |-> x]

StringV(s) == [tag |-> "String", val |-> s]
IntV(n) == [tag |-> "Int", int |-> n]
ListV(vs) == [tag |-> "List", vals |-> vs]
RecordV(es) == [tag |-> "Record", rec |-> es]

(* ------------------------------ inputs --------------------------------- *)

\* The file system seen by PathBuf::is_dir: "/d" is a directory, "/f" a
\* regular file, every other path does not exist.
FsKind(path) == IF path = "/d" THEN "dir" ELSE IF path = "/f" THEN "file" ELSE "missing"

\* Mutant of IsDir: exists() where is_dir() is meant.
IsDirExists(path) == FsKind(path) # "missing"

\* PathBuf::from(&val).is_dir()
IsDir(path) == FsKind(path) = "dir"

\* Values the host may hand over for --base-dir.
BaseDirInputs ==
    {None, Some(StringV("/d")), Some(StringV("/f")), Some(StringV("/x")), Some(IntV(7))}

\* Values the host may hand over for --title.
TitleInputs == {None, Some(StringV("Pick")), Some(IntV(7))}

\* Keys of a filter record.
Labels == {"Normal", "Weird", "Images"}

\* Values of a filter record entry: lists of strings (one of them empty),
\* a list with a non-string element, and a value that is no list.
EntryValues ==
    { ListV(<<StringV("png"), StringV("jpg")>>),
      ListV(<<StringV("webp")>>),
      ListV(<<>>),
      ListV(<<StringV("webp"), IntV(7)>>),
      IntV(7) }

\* A nu Record holds its columns in insertion order, each key once.
Records ==
    UNION { { es \in [1..n -> [key : Labels, value : EntryValues]] :
                \A i, j \in 1..n : i # j => es[i].key # es[j].key } :
            n \in 0..MaxEntries }

\* Values the host may hand over for --filter.
FilterInputs == {None, Some(StringV("png"))} \cup { Some(RecordV(es)) : es \in Records }

\* One evaluated call: the two switches and the three named options.  A
\* switch reaches run as a boolean: the host types the switches, so has_flag
\* does not fail on the calls enumerated here.
Calls ==
    [ dirOnly : BOOLEAN, multiple : BOOLEAN, baseDir : BaseDirInputs,
      title : TitleInputs, filter : FilterInputs ]

\* Replies of engine.get_current_dir(): Ok(path) or Err(ShellError).
CwdReplies == {[ok |-> TRUE, val |-> "/w"], [ok |-> FALSE]}

\* Paths the dialog presenter may hand back; the last one is not UTF-8.
PathPool ==
    { [os |-> "/home/u/pic.png", utf8 |-> TRUE],
      [os |-> "/home/u/b.txt", utf8 |-> TRUE],
      [os |-> "/tmp/\\xFF", utf8 |-> FALSE] }

\* Outcomes of FileDialog::show(): Err(_), or Ok of Option<PathBuf>.
SingleOutcomes ==
    {[ok |-> FALSE]} \cup {[ok |-> TRUE, path |-> o] : o \in {None} \cup {Some(p) : p \in PathPool}}

\* Outcomes of the multi-file show(): Err(_), or Ok of Vec<PathBuf>.
MultiOutcomes ==
    {[ok |-> FALSE]} \cup
    {[ok |-> TRUE, paths |-> ps] : ps \in UNION {[1..n -> PathPool] : n \in 0..MaxPaths}}

(* ------------------------------ results -------------------------------- *)

NoResult == [kind |-> "none"]
OkResult(v) == [kind |-> "ok", value |-> v]
ErrResult(m, l) == [kind |-> "err", msg |-> m, label |-> l]
PanicResult(m) == [kind |-> "panic", msg |-> m]

\* The ShellError of a failed get_current_dir, passed on by `?`.
HostError == ErrResult("engine: current directory unavailable", "")
InvalidBaseDirectory ==
    ErrResult("dir has an incorrect type/path", "dir has to be a directory")
InvalidTitle == ErrResult("title has an incorrect type", "title has to be a string")
InvalidFilter ==
    ErrResult("filter has an incorrect type", "filter has to be a record of List(String)")
\* (the label's back quotes around the two flag names are left out)
ConflictingOptions ==
    ErrResult("Cannot select multiple directories",
              "Only one of --multiple or --only-dir can be used")

NotShown == [invoked |-> FALSE]
NotAsked == [asked |-> FALSE]
NoOutcome == [kind |-> "none"]
EmptyCall ==
    [dirOnly |-> FALSE, multiple |-> FALSE, baseDir |-> None, title |-> None, filter |-> None]

\* DialogBuilder::file(): no filters, no title, no location.
NewDialog == [filters |-> <<>>, title |-> None, location |-> None]

\* Result<T, LabeledError> of one validation step.
Ok(x) == [ok |-> TRUE, val |-> x]
Err(e) == [ok |-> FALSE, err |-> e]

(* ------------------------- run: pure steps ----------------------------- *)

\* The match on get_flag_value("base-dir"); cwd is the engine's reply to
\* get_current_dir(), asked for only when the flag is absent.
BaseDirMatch(flag, cwd) ==
    IF flag.some /\ flag.v.tag = "String" /\ IsDir(flag.v.val)
    THEN Ok(Some(flag.v.val))
    ELSE IF ~flag.some
         THEN (IF cwd.ok THEN Ok(Some(cwd.val)) ELSE Err(HostError))
         ELSE Err(InvalidBaseDirectory)

\* Mutant of TitleMatch: a title that is no string is dropped, not rejected.
TitleMatchLenient(flag) ==
    IF flag.some /\ flag.v.tag = "String" THEN Ok(Some(flag.v.val)) ELSE Ok(None)

\* The match on get_flag_value("title").
TitleMatch(flag) ==
    IF flag.some /\ flag.v.tag = "String" THEN Ok(Some(flag.v.val))
    ELSE IF ~flag.some THEN Ok(None)
    ELSE Err(InvalidTitle)

\* The match on get_flag_value("filter").
FilterMatch(flag) ==
    IF flag.some /\ flag.v.tag = "Record" THEN Ok(Some(flag.v.rec))
    ELSE IF ~flag.some THEN Ok(None)
    ELSE Err(InvalidFilter)

\* The inner loop over the elements of one list: the strings, in order,
\* or record_error at the first element that is no string.
RECURSIVE ListStrings(_)
ListStrings(vals) ==
    IF vals = <<>> THEN Ok(<<>>)
    ELSE IF Head(vals).tag # "String" THEN Err(InvalidFilter)
    ELSE LET rest == ListStrings(Tail(vals))
         IN  IF rest.ok THEN Ok(<<Head(vals).val>> \o rest.val) ELSE rest

\* Mutant of EntryFilters: elements that are no strings are skipped.
EntryFiltersSkipNonStrings(entry) ==
    IF entry.value.tag = "List"
    THEN LET strs == SelectSeq(entry.value.vals, LAMBDA v : v.tag = "String")
         IN  Ok([name |-> entry.key, exts |-> [j \in 1..Len(strs) |-> strs[j].val]])
    ELSE Err(InvalidFilter)

\* The body of the loop over the record's entries: the (key, filters) pair
\* pushed to fv, or record_error.
EntryFilters(entry) ==
    IF entry.value.tag = "List"
    THEN LET fs == ListStrings(entry.value.vals)
         IN  IF fs.ok THEN Ok([name |-> entry.key, exts |-> fs.val]) ELSE fs
    ELSE Err(InvalidFilter)

\* Mutant of AddFilter: the group is put in front of the earlier ones.
AddFilterFront(d, group) == [d EXCEPT !.filters = <<group>> \o @]

\* fd.add_filter(key, value)
AddFilter(d, group) == [d EXCEPT !.filters = Append(@, group)]

\* fd.set_title(t)
SetTitleOf(d, t) == [d EXCEPT !.title = Some(t)]

\* Mutant of SetLocationOf: the builder returned by set_location is dropped.
SetLocationDropped(d, bd) == d

\* fd.set_location(bd)
SetLocationOf(d, bd) == [d EXCEPT !.location = Some(bd)]

\* Mutant of Mode: the (true, true) arm is missing.
ModeNoConflictArm(sd, m) ==
    IF m THEN "multi"
    ELSE IF sd THEN "dir"
    ELSE "file"

\* The match on (select_dir, multiple).
Mode(sd, m) ==
    IF sd /\ m THEN "conflict"
    ELSE IF m THEN "multi"
    ELSE IF sd THEN "dir"
    ELSE "file"

\* p.into_os_string().into_string(): Ok(text) for a UTF-8 path, Err else.
IntoString(p) == IF p.utf8 THEN Ok(p.os) ELSE Err(p)

\* paths.iter().map(|p| Value::string(... .expect("Non utf-8 path"))).collect()
RECURSIVE MapPaths(_)
MapPaths(paths) ==
    IF paths = <<>> THEN Ok(<<>>)
    ELSE LET s == IntoString(Head(paths))
             rest == MapPaths(Tail(paths))
         IN  IF ~s.ok THEN Err("Non utf-8 path")
             ELSE IF ~rest.ok THEN rest
             ELSE Ok(<<StringV(s.val)>> \o rest.val)

\* What the multi-file arm returns for the outcome of show().
MultiReturn(out) ==
    IF ~out.ok THEN PanicResult("Can't show dialog")
    ELSE LET vs == MapPaths(out.paths)
         IN  IF vs.ok THEN OkResult(ListV(vs.val)) ELSE PanicResult(vs.err)

\* Mutant of SingleReturn: expect() on the Option where unwrap_or_else is meant.
SingleReturnUnwrap(res) ==
    IF ~res.some THEN PanicResult("No path")
    ELSE LET s == IntoString(res.v)
         IN  IF s.ok THEN OkResult(StringV(s.val)) ELSE PanicResult("Non utf-8 path")

\* result.map(|p| Value::string(...)).unwrap_or_else(|| Value::string(""))
SingleReturn(res) ==
    IF ~res.some THEN OkResult(StringV(""))
    ELSE LET s == IntoString(res.v)
         IN  IF s.ok THEN OkResult(StringV(s.val)) ELSE PanicResult("Non utf-8 path")

(* ------------------------------ state ---------------------------------- *)

VARIABLES
    pc,             \* position inside run, "idle" between calls
    alive,          \* the plugin process is running
    call,           \* the EvaluatedCall being served
    cwdReply,       \* the engine's reply to get_current_dir, if asked
    select_dir, base_dir, title, multiple, filter,   \* run's locals
    fv,             \* the vector built by the filter walk
    filter_values,  \* Option of that vector
    idx,            \* position of the running loop
    fd,             \* the dialog builder
    shown,          \* what the dialog presenter was asked to show, if anything
    outcome,        \* what show() gave back
    result,         \* the local `result` of the single-select arms
    returned        \* what run handed back: Ok, Err, or a panic

vars ==
    << pc, alive, call, cwdReply, select_dir, base_dir, title, multiple, filter,
       fv, filter_values, idx, fd, shown, outcome, result, returned >>

locals == << select_dir, base_dir, title, multiple, filter, fv, filter_values, idx, fd >>
observed == << cwdReply, shown, outcome, result, returned >>

\* The locals and the records of one call before the call has done anything.
Fresh ==
    /\ cwdReply = NotAsked
    /\ select_dir = FALSE
    /\ base_dir = None
    /\ title = None
    /\ multiple = FALSE
    /\ filter = None
    /\ fv = <<>>
    /\ filter_values = None
    /\ idx = 1
    /\ fd = NewDialog
    /\ shown = NotShown
    /\ outcome = NoOutcome
    /\ result = None
    /\ returned = NoResult

Init ==
    /\ pc = "idle"
    /\ alive = TRUE
    /\ call = EmptyCall
    /\ Fresh

(* ------------------------------ actions -------------------------------- *)

\* serve_plugin hands one call to run.
Invoke ==
    /\ pc = "idle"
    /\ alive
    /\ \E c \in Calls : call' = c
    /\ pc' = "select_dir"
    /\ UNCHANGED << alive, locals, observed >>

\* let select_dir = call.has_flag("dir-only")?;
ReadDirOnly ==
    /\ pc = "select_dir"
    /\ select_dir' = call.dirOnly
    /\ pc' = "base_dir"
    /\ UNCHANGED << alive, call, base_dir, title, multiple, filter, fv, filter_values,
                    idx, fd, observed >>

\* let base_dir = match call.get_flag_value("base-dir") { ... };
ResolveBaseDir ==
    /\ pc = "base_dir"
    /\ \E reply \in CwdReplies :
         LET r == BaseDirMatch(call.baseDir, reply)
         IN  /\ cwdReply' = IF call.baseDir.some THEN NotAsked
                            ELSE [asked |-> TRUE, reply |-> reply]
             /\ IF r.ok
                THEN /\ base_dir' = r.val
                     /\ pc' = "title"
                     /\ returned' = returned
                ELSE /\ base_dir' = base_dir
                     /\ pc' = "done"
                     /\ returned' = r.err
    /\ UNCHANGED << alive, call, select_dir, title, multiple, filter, fv, filter_values,
                    idx, fd, shown, outcome, result >>

\* let title = match call.get_flag_value("title") { ... };
ResolveTitle ==
    /\ pc = "title"
    /\ LET r == TitleMatch(call.title)
       IN  IF r.ok
           THEN /\ title' = r.val
                /\ pc' = "multiple"
                /\ returned' = returned
           ELSE /\ title' = title
                /\ pc' = "done"
                /\ returned' = r.err
    /\ UNCHANGED << alive, call, cwdReply, select_dir, base_dir, multiple, filter, fv,
                    filter_values, idx, fd, shown, outcome, result >>

\* let multiple = call.has_flag("multiple")?;
ReadMultiple ==
    /\ pc = "multiple"
    /\ multiple' = call.multiple
    /\ pc' = "filter"
    /\ UNCHANGED << alive, call, select_dir, base_dir, title, filter, fv, filter_values,
                    idx, fd, observed >>

\* let filter = match call.get_flag_value("filter") { ... };
\* let mut fd = DialogBuilder::file();
ResolveFilter ==
    /\ pc = "filter"
    /\ LET r == FilterMatch(call.filter)
       IN  IF r.ok
           THEN /\ filter' = r.val
                /\ fd' = NewDialog
                /\ pc' = "filter_values"
                /\ returned' = returned
           ELSE /\ filter' = filter
                /\ fd' = fd
                /\ pc' = "done"
                /\ returned' = r.err
    /\ UNCHANGED << alive, call, cwdReply, select_dir, base_dir, title, multiple, fv,
                    filter_values, idx, shown, outcome, result >>

\* One turn of `for (key, value) in f.iter()`, or the end of the walk.
WalkFilter ==
    /\ pc = "filter_values"
    /\ IF ~filter.some
       THEN /\ filter_values' = None
            /\ pc' = "add_filter"
            /\ UNCHANGED << fv, idx, returned >>
       ELSE IF idx > Len(filter.v)
       THEN /\ filter_values' = Some(fv)
            /\ idx' = 1
            /\ pc' = "add_filter"
            /\ UNCHANGED << fv, returned >>
       ELSE LET r == EntryFilters(filter.v[idx])
            IN  IF r.ok
                THEN /\ fv' = Append(fv, r.val)
                     /\ idx' = idx + 1
                     /\ UNCHANGED << pc, filter_values, returned >>
                ELSE /\ returned' = r.err
                     /\ pc' = "done"
                     /\ UNCHANGED << fv, idx, filter_values >>
    /\ UNCHANGED << alive, call, cwdReply, select_dir, base_dir, title, multiple, filter,
                    fd, shown, outcome, result >>

\* One turn of `for (key, value) in fv { fd = fd.add_filter(key, value) }`.
AddFilters ==
    /\ pc = "add_filter"
    /\ IF filter_values.some /\ idx <= Len(filter_values.v)
       THEN /\ fd' = AddFilter(fd, filter_values.v[idx])
            /\ idx' = idx + 1
            /\ pc' = pc
       ELSE /\ pc' = "set_title"
            /\ UNCHANGED << fd, idx >>
    /\ UNCHANGED << alive, call, select_dir, base_dir, title, multiple, filter, fv,
                    filter_values, observed >>

\* if let Some(t) = &title { fd = fd.set_title(t) }
SetTitle ==
    /\ pc = "set_title"
    /\ fd' = IF title.some THEN SetTitleOf(fd, title.v) ELSE fd
    /\ pc' = "set_location"
    /\ UNCHANGED << alive, call, select_dir, base_dir, title, multiple, filter, fv,
                    filter_values, idx, observed >>

\* if let Some(bd) = &base_dir { fd = fd.set_location(bd) }
SetLocation ==
    /\ pc = "set_location"
    /\ fd' = IF base_dir.some THEN SetLocationOf(fd, base_dir.v) ELSE fd
    /\ pc' = "show"
    /\ UNCHANGED << alive, call, select_dir, base_dir, title, multiple, filter, fv,
                    filter_values, idx, observed >>

\* (true, true) => return Err(...)
ShowConflict ==
    /\ pc = "show"
    /\ Mode(select_dir, multiple) = "conflict"
    /\ returned' = ConflictingOptions
    /\ pc' = "done"
    /\ UNCHANGED << alive, call, locals, cwdReply, shown, outcome, result >>

\* (false, true) => return Ok(Value::list(fd.open_multiple_file().show()...))
ShowMultiple ==
    /\ pc = "show"
    /\ Mode(select_dir, multiple) = "multi"
    /\ shown' = [invoked |-> TRUE, mode |-> "multi", request |-> fd]
    /\ \E out \in MultiOutcomes :
         /\ outcome' = out
         /\ returned' = MultiReturn(out)
    /\ pc' = "done"
    /\ UNCHANGED << alive, call, locals, cwdReply, result >>

\* (true, false) => fd.open_single_dir().show().expect("Can't show dialog")
\* (false, false) => fd.open_single_file().show().expect("Can't show dialog")
ShowSingle ==
    /\ pc = "show"
    /\ Mode(select_dir, multiple) \in {"dir", "file"}
    /\ shown' = [invoked |-> TRUE, mode |-> Mode(select_dir, multiple), request |-> fd]
    /\ \E out \in SingleOutcomes :
         /\ outcome' = out
         /\ IF out.ok
            THEN /\ result' = out.path
                 /\ pc' = "map_result"
                 /\ returned' = returned
            ELSE /\ result' = result
                 /\ pc' = "done"
                 /\ returned' = PanicResult("Can't show dialog")
    /\ UNCHANGED << alive, call, locals, cwdReply >>

\* Ok(result.map(...).unwrap_or_else(...))
MapResult ==
    /\ pc = "map_result"
    /\ returned' = SingleReturn(result)
    /\ pc' = "done"
    /\ UNCHANGED << alive, call, locals, cwdReply, shown, outcome, result >>

\* run is over: an Ok or Err goes back to the engine and the next call can be
\* served, with fresh locals.  After a panic nothing goes back; whether the
\* process is still there depends on the build's panic strategy (abort or
\* unwind).
Return ==
    /\ pc = "done"
    /\ pc' = "idle"
    /\ alive' \in (IF returned.kind = "panic" THEN BOOLEAN ELSE {TRUE})
    /\ call' = EmptyCall
    /\ cwdReply' = NotAsked
    /\ select_dir' = FALSE
    /\ base_dir' = None
    /\ title' = None
    /\ multiple' = FALSE
    /\ filter' = None
    /\ fv' = <<>>
    /\ filter_values' = None
    /\ idx' = 1
    /\ fd' = NewDialog
    /\ shown' = NotShown
    /\ outcome' = NoOutcome
    /\ result' = None
    /\ returned' = NoResult

Next ==
    \/ Invoke
    \/ ReadDirOnly
    \/ ResolveBaseDir
    \/ ResolveTitle
    \/ ReadMultiple
    \/ ResolveFilter
    \/ WalkFilter
    \/ AddFilters
    \/ SetTitle
    \/ SetLocation
    \/ ShowConflict
    \/ ShowMultiple
    \/ ShowSingle
    \/ MapResult
    \/ Return

Spec == Init /\ [][Next]_vars

(* ------------------------- vocabulary of the claims -------------------- *)

Done == pc = "done"
BothFlags == call.multiple /\ call.dirOnly

\* A supplied value is acceptable for its option; an absent one always is.
BaseDirParamOk == call.baseDir.some =>
    (call.baseDir.v.tag = "String" /\ FsKind(call.baseDir.v.val) = "dir")
TitleParamOk == call.title.some => call.title.v.tag = "String"
FilterParamOk == call.filter.some =>
    /\ call.filter.v.tag = "Record"
    /\ \A i \in 1..Len(call.filter.v.rec) :
         /\ call.filter.v.rec[i].value.tag = "List"
         /\ \A j \in 1..Len(call.filter.v.rec[i].value.vals) :
              call.filter.v.rec[i].value.vals[j].tag = "String"

\* The engine was asked for the current directory and could not tell it.
HostCwdFailed == cwdReply.asked /\ ~cwdReply.reply.ok

\* The errors that belong to the options of the call that are not acceptable.
TypeErrorsOfCall ==
    (IF BaseDirParamOk THEN {} ELSE {InvalidBaseDirectory}) \cup
    (IF TitleParamOk THEN {} ELSE {InvalidTitle}) \cup
    (IF FilterParamOk THEN {} ELSE {InvalidFilter})

\* The filter groups a well-shaped record asks for, in the record's order.
GroupsOf(rec) ==
    [i \in 1..Len(rec) |->
        [name |-> rec[i].key,
         exts |-> [j \in 1..Len(rec[i].value.vals) |-> rec[i].value.vals[j].val]]]

\* The dialog was dismissed without a choice.
Cancelled ==
    /\ shown.invoked
    /\ outcome.ok
    /\ IF shown.mode = "multi" THEN outcome.paths = <<>> ELSE ~outcome.path.some

(* ------------------------------ claims --------------------------------- *)

C3_BadBaseDirRejected ==
    ~BaseDirParamOk =>
        /\ ~shown.invoked
        /\ Done => returned = InvalidBaseDirectory

\* C3 witness: base-dir names a regular file, every other parameter is bad too.
C3_Witness ==
    /\ Done /\ returned = InvalidBaseDirectory
    /\ call.baseDir = Some(StringV("/f"))
    /\ BothFlags /\ ~TitleParamOk /\ ~FilterParamOk

\* C4: when the dialog is dismissed without a choice the call returns Ok: the
\* empty list in multi-select mode, the empty string in both single modes.
C4_CancelIsEmptyValue ==
    (Done /\ Cancelled) =>
        returned = IF shown.mode = "multi" THEN OkResult(ListV(<<>>))
                   ELSE OkResult(StringV(""))

\* C4 witness: the directory chooser was dismissed.
C4_Witness ==
    /\ Done /\ Cancelled /\ shown.mode = "dir"
    /\ returned = OkResult(StringV(""))

\* C5: in every call that shows a dialog the result is fixed by the mode and
\* the paths handed back: in multi mode the list of those paths as strings,
\* in the same order and number, in a single mode the one path as a string.
C5_ResultIsThePaths ==
    (Done /\ shown.invoked /\ outcome.ok) =>
        IF shown.mode = "multi"
        THEN returned =
               OkResult(ListV([i \in 1..Len(outcome.paths) |-> StringV(outcome.paths[i].os)]))
        ELSE outcome.path.some => returned = OkResult(StringV(outcome.path.v.os))

\* C6: with base-dir absent the location of the dialog request is the current
\* directory the engine reported, and the call does not end in
\* InvalidBaseDirectory.
C6_DefaultIsCwd ==
    ~call.baseDir.some =>
        /\ shown.invoked =>
             /\ cwdReply.asked /\ cwdReply.reply.ok
             /\ shown.request.location = Some(cwdReply.reply.val)
        /\ Done => returned # InvalidBaseDirectory

\* C6 witness: a dialog was shown for a call without base-dir.
C6_Witness ==
    /\ shown.invoked /\ ~call.baseDir.some
    /\ shown.request.location = Some("/w")

\* C7: for a well-shaped filter record the request shown holds one group per
\* key, with the keys' labels in the record's order and each list verbatim.
C7_GroupsInOrder ==
    (shown.invoked /\ call.filter.some) =>
        shown.request.filters = GroupsOf(call.filter.v.rec)

\* C7 witness: a dialog was shown with two groups, the first with two extensions.
C7_Witness ==
    /\ shown.invoked /\ call.filter.some
    /\ Len(shown.request.filters) = 2
    /\ shown.request.filters[1] = [name |-> "Weird", exts |-> <<"png", "jpg">>]
    /\ shown.request.filters[2] = [name |-> "Normal", exts |-> <<"webp">>]

\* C8: every call that does not return a value returns a labeled error, also
\* when a chosen path is no valid text, and the plugin process stays alive.
C8_FailuresAreLabeledErrors ==
    /\ alive
    /\ (Done /\ returned.kind # "ok") => returned.kind = "err"

C10_NoEmptyGroupShown ==
    shown.invoked =>
        \A i \in 1..Len(shown.request.filters) : shown.request.filters[i].exts # <<>>

====
